---- MODULE Spec2Model ----
(***************************************************************************)
(* A model of the real-time relay of the emergency response server (the   *)
(* WebSocket server set up by registerRoutes) and of the storage module's  *)
(* resource assignment.                                                    *)
(*                                                                         *)
(* A JSON object is a record that has exactly the keys the object has, so  *)
(* data.k is undefined exactly when "k" is not in DOMAIN data.  Numbers    *)
(* are small integers, and x.toString() is ToString(x).                    *)
(***************************************************************************)
EXTENDS Integers, Sequences, FiniteSets, TLC

\* Connections the WebSocket server accepts over a run.
NumConns == 3

\* Messages the relay receives over a run.
MaxMsgs == 1

Conns == 1..NumConns

\* Calls of assignResources over a run.
MaxCalls == 2

\* Rows of the emergency_resources table.
NumResources == 2

Resources == 1..NumResources

\* Emergency alerts created through the REST endpoint over a run.
MaxAlerts == 2

\* WebSocket objects the browser module creates over a run.
MaxSockets == 8

\* Requests to POST /api/register.
MaxRegs == 2

\* Requests to DELETE /api/admin/users/:id.
MaxDeletes == 2

\* Runs of the modal's effect, each starting one chain of location fetches.
MaxChains == 2

\* Calls of fetchLocation followed within one chain.
MaxFetches == 6

\* Handlers registered with addWSListener.
MaxListeners == 1

MAX_RETRIES == 3

MAX_RECONNECT_ATTEMPTS == 5

RECONNECT_DELAY == 3000

\* A column that holds SQL NULL (a field that was undefined in the insert).
Null == "NULL"

VARIABLES
    readyState,       \* readyState of each connection's server-side WebSocket
    inflight,         \* message handlers suspended at an await
    locationUpdates,  \* rows of the location_updates table
    emergencyAlerts,  \* rows of the emergency_alerts table
    nmsgs,            \* number of messages received so far
    handling,         \* the message whose handler the step just taken ran
    out,              \* per connection: the frames the step just taken sent
    emergencyResources,            \* status of each emergency_resources row
    emergencyResourceAssignments,  \* rows of emergency_resource_assignments
    calls,            \* the calls of assignResources, and where each stands
    pingInterval,     \* per connection: the keep-alive timers scheduled
    lastEvent,        \* per connection: the lifecycle handler that ran last
    client,           \* the browser module: its sockets, counter and timers
    users,            \* rows of the users table
    registrations,    \* the requests to POST /api/register, and where each stands
    medicalInfo,      \* rows of the medical_info table
    emergencyContacts,  \* rows of the emergency_contacts table
    deletions,        \* the requests to DELETE /api/admin/users/:id
    modal,            \* the emergency modal: retryCount and its location fetches
    listeners         \* the handlers made by addWSListener, and where they sit

probeVars == <<pingInterval, lastEvent>>

relayVars == <<readyState, inflight, locationUpdates, nmsgs, handling, out,
               probeVars>>

assignVars == <<emergencyResources, emergencyResourceAssignments, calls>>

uiVars == <<modal, listeners>>

clientVars == <<client, uiVars>>

dependentVars == <<medicalInfo, emergencyContacts, deletions>>

userVars == <<users, registrations, dependentVars>>

\* What the relay's steps leave alone, and what the assignment's steps do.
nonRelayVars == <<assignVars, clientVars, userVars>>

nonAssignVars == <<relayVars, clientVars, userVars>>

vars == <<relayVars, emergencyAlerts, assignVars, clientVars, userVars>>

----------------------------------------------------------------------------
(* Inbound messages: the parsed JSON object of a text frame.               *)

\* A text frame that is not JSON: JSON.parse throws on it.
NotJson == "raw" :> "not json"

LocationUpdate == "type" :> "location_update"

\* A complete location_update, with and without the optional fields, and
\* the same message with latitude 0 or with one required field missing.
LocationMsgs ==
    LET full == LocationUpdate @@ ("id" :> 42) @@ ("latitude" :> -1)
                @@ ("longitude" :> 36)
        opt == ("accuracy" :> 15) @@ ("role" :> "ambulance")
    IN  { full @@ opt,
          full,
          ("latitude" :> 0) @@ full @@ opt,
          [k \in DOMAIN full \ {"latitude"} |-> full[k]],
          [k \in DOMAIN full \ {"longitude"} |-> full[k]],
          [k \in DOMAIN full \ {"id"} |-> full[k]] }

EmergencyBroadcast == "type" :> "emergency_broadcast"

\* A complete emergency_broadcast (its latitude is 0) that names the kind of
\* emergency, and the same message with one field missing.
EmergencyMsgs ==
    LET loc == ("latitude" :> 0) @@ ("longitude" :> 36) @@ ("accuracy" :> 15)
        full == EmergencyBroadcast @@ ("id" :> 1) @@ ("userId" :> 7)
                @@ ("location" :> loc) @@ ("severity" :> "high")
                @@ ("emergencyType" :> "Medical")
    IN  { full,
          [k \in DOMAIN full \ {"id"} |-> full[k]],
          [k \in DOMAIN full \ {"userId"} |-> full[k]],
          [k \in DOMAIN full \ {"location"} |-> full[k]],
          ("location" :> ("longitude" :> 36)) @@ full }

\* Not JSON, no type, and a type the relay does not know.
OtherMsgs == {NotJson, "id" :> 42, ("type" :> "pong") @@ ("id" :> 42)}

Messages == LocationMsgs \cup EmergencyMsgs \cup OtherMsgs

----------------------------------------------------------------------------
(* JavaScript values.                                                      *)

Has(d, k) == k \in DOMAIN d

\* !d.k for a numeric field: undefined and 0 are falsy.
FalsyNum(d, k) == ~Has(d, k) \/ d[k] = 0

\* !d.k for a string or object field: undefined is falsy (no message of the
\* model carries an empty string or null).
FalsyRef(d, k) == ~Has(d, k)

\* d.k?.toString(): undefined stays undefined and is inserted as NULL.
OptToString(d, k) == IF Has(d, k) THEN ToString(d[k]) ELSE Null

\* d.k || dflt for a string field.
OrElse(d, k, dflt) == IF Has(d, k) THEN d[k] ELSE dflt

----------------------------------------------------------------------------
(* The storage module.                                                     *)

\* A store that keeps one row per subject and overwrites it.
createLocationUpdateUpsert(data) ==
    IF \E i \in DOMAIN locationUpdates : locationUpdates[i].userId = data.userId
    THEN [i \in DOMAIN locationUpdates |->
            IF locationUpdates[i].userId = data.userId
            THEN ("id" :> i) @@ data ELSE locationUpdates[i]]
    ELSE Append(locationUpdates, ("id" :> Len(locationUpdates) + 1) @@ data)

\* storage.createLocationUpdate: inserts the values as given, returns the row.
createLocationUpdate(data) ==
    Append(locationUpdates, ("id" :> Len(locationUpdates) + 1) @@ data)

\* The row storage.createEmergencyAlert inserts: the values given, with
\* status 'active'; no resource is assigned yet.
AlertRow(id, data) ==
    ("id" :> id) @@ ("status" :> "active") @@ data
    @@ ("assignedResources" :> Null)

createEmergencyAlert(data) ==
    Append(emergencyAlerts, AlertRow(Len(emergencyAlerts) + 1, data))

----------------------------------------------------------------------------
(* The relay: wss.on('connection') and its ws.on('message') handler.       *)

\* wss.clients: every accepted socket until its 'close' event.
wss_clients == {c \in Conns : readyState[c] \in {"OPEN", "CLOSING"}}

\* What the synchronous part of the message handler does with a frame:
\* it throws, or reaches one of the two awaits, or falls through both ifs.
Throw(msg) == [kind |-> "throw", message |-> msg]

Dispatch(data) ==
    IF Has(data, "raw") THEN Throw("SyntaxError")
    ELSE IF FalsyRef(data, "type") \/ FalsyNum(data, "id")
        THEN Throw("Invalid message format")
    ELSE IF data.type = "location_update" THEN
        IF FalsyNum(data, "latitude") \/ FalsyNum(data, "longitude")
        THEN Throw("Invalid location data")
        ELSE [kind |-> "await", call |-> "createLocationUpdate",
              args |-> [userId |-> data.id,
                        latitude |-> ToString(data.latitude),
                        longitude |-> ToString(data.longitude),
                        accuracy |-> OptToString(data, "accuracy"),
                        source |-> OrElse(data, "role", "user")]]
    ELSE IF data.type = "emergency_broadcast" THEN
        IF FalsyNum(data, "userId") \/ FalsyRef(data, "location")
        THEN Throw("Invalid emergency data")
        ELSE IF ~Has(data.location, "latitude") \/ ~Has(data.location, "longitude")
        THEN Throw("TypeError")
        ELSE [kind |-> "await", call |-> "createEmergencyAlert",
              args |-> [userId |-> data.userId,
                        latitude |-> ToString(data.location.latitude),
                        longitude |-> ToString(data.location.longitude),
                        accuracy |-> OptToString(data.location, "accuracy"),
                        emergencyType |-> data.type,
                        description |-> OrElse(data, "description", ""),
                        priority |-> OrElse(data, "severity", "medium")]]
    ELSE [kind |-> "none"]

\* client.send(frame): the frame is handed to the connection's transport,
\* which delivers it or loses it; a loss surfaces later on that connection's
\* own socket, never as an exception of send.
Frame(type, data, delivered) ==
    [type |-> type, data |-> data, delivered |-> delivered]

NoOut == [c \in Conns |-> <<>>]

NoMsg == [at |-> "none"]

\* A call of assignResources that has not been made yet.
Idle == [pc |-> "idle"]

\* ForEachSend, had a failed send thrown out of the forEach callback: the
\* recipients after the first failing one (in the order of wss.clients, the
\* order of arrival) are never reached.
ForEachSendAbort(recipients, failing, type, data) ==
    [c \in Conns |->
        IF c \in recipients /\ \A f \in failing \cap recipients : c <= f
        THEN <<Frame(type, data, c \notin failing)>>
        ELSE <<>>]

\* wss.clients.forEach(client => { if (<guard>) client.send(frame) }),
\* where the transports of `failing` lose the frame.
ForEachSend(recipients, failing, type, data) ==
    [c \in Conns |->
        IF c \in recipients
        THEN <<Frame(type, data, c \notin failing)>>
        ELSE <<>>]

\* LocationRecipients without the readyState test.
LocationRecipientsNoGuard(ws) == {c \in wss_clients : c # ws}

\* EmergencyRecipients with the location branch's client !== ws.
EmergencyRecipientsOthers(ws) ==
    {c \in wss_clients : c # ws /\ readyState[c] = "OPEN"}

\* The guards of the two fan-outs.
LocationRecipients(ws) ==
    {c \in wss_clients : c # ws /\ readyState[c] = "OPEN"}

EmergencyRecipients(ws) ==
    {c \in wss_clients : readyState[c] = "OPEN"}

\* Catch, only logging the error (as the older relay of routes.ts does).
CatchSilent(ws, message) == out' = NoOut

\* Catch, sending the error frame to every open client.
CatchBroadcast(ws, message) ==
    \E failing \in SUBSET EmergencyRecipients(ws) :
        out' = ForEachSend(EmergencyRecipients(ws), failing, "error", message)

\* The catch block: an error frame to the sender, if it is still open.
Catch(ws, message) ==
    \E failing \in SUBSET {ws} :
        out' = IF readyState[ws] = "OPEN"
               THEN ForEachSend({ws}, failing, "error", message)
               ELSE NoOut

\* The location_update event: the fields of the message as received.
LocationEvent(data) ==
    [k \in DOMAIN data \cap {"id", "latitude", "longitude", "accuracy", "role"}
        |-> data[k]]

\* The browser module once imported: its last statement has called
\* connectWebSocket(), so ws is a first socket, still connecting.
ClientStart ==
    client = [sockets |-> <<"CONNECTING">>, ws |-> 1, reconnectAttempts |-> 0,
              timers |-> <<>>, lastDelay |-> 0, toast |-> "none"]

\* No message event has been delivered to the page yet.
NoArrival == [socket |-> 0, current |-> FALSE, invoked |-> {},
              added |-> {}, removed |-> {}]

\* The modal is closed and no listener is registered.
UiStart ==
    /\ modal = [retryCount |-> 0, chains |-> <<>>]
    /\ listeners = [handlers |-> [l \in 1..MaxListeners |->
                                      [on |-> {}, state |-> "none"]],
                    last |-> NoArrival]

\* An empty users table, and no registration request made yet.
UsersStart ==
    /\ users = <<>>
    /\ registrations = [k \in 1..MaxRegs |-> [pc |-> "idle"]]
    /\ medicalInfo = <<>>
    /\ emergencyContacts = <<>>
    /\ deletions = [k \in 1..MaxDeletes |-> [pc |-> "idle"]]

----------------------------------------------------------------------------
(* Actions.                                                                *)

Init ==
    /\ readyState = [c \in Conns |-> "NONE"]
    /\ inflight = {}
    /\ locationUpdates = <<>>
    /\ emergencyAlerts = <<>>
    /\ nmsgs = 0
    /\ handling = NoMsg
    /\ out = NoOut
    /\ emergencyResources = [r \in Resources |-> "available"]
    /\ emergencyResourceAssignments = <<>>
    /\ calls = [k \in 1..MaxCalls |-> Idle]
    /\ pingInterval = [c \in Conns |-> 0]
    /\ lastEvent = [c \in Conns |-> "none"]
    /\ ClientStart
    /\ UiStart
    /\ UsersStart

\* A step of no message handler: it sends no frame.
Quiet == handling' = NoMsg /\ out' = NoOut /\ UNCHANGED nonRelayVars

\* Connect, had it sent the stored alerts to the connection that opens.
ConnectReplay(c) ==
    /\ readyState[c] = "NONE"
    /\ \A d \in Conns : d < c => readyState[d] # "NONE"
    /\ readyState' = [readyState EXCEPT ![c] = "OPEN"]
    /\ pingInterval' = [pingInterval EXCEPT ![c] = @ + 1]
    /\ lastEvent' = [lastEvent EXCEPT ![c] = "connection"]
    /\ handling' = [at |-> "connection", ws |-> c]
    /\ out' = [NoOut EXCEPT ![c] =
                 [i \in DOMAIN emergencyAlerts |->
                     Frame("emergency_broadcast", emergencyAlerts[i], TRUE)]]
    /\ UNCHANGED nonRelayVars
    /\ UNCHANGED <<inflight, locationUpdates, emergencyAlerts, nmsgs>>

\* wss.on('connection'): connections are numbered in the order they arrive.
Connect(c) ==
    /\ readyState[c] = "NONE"
    /\ \A d \in Conns : d < c => readyState[d] # "NONE"
    /\ readyState' = [readyState EXCEPT ![c] = "OPEN"]
    /\ pingInterval' = [pingInterval EXCEPT ![c] = @ + 1]
    /\ lastEvent' = [lastEvent EXCEPT ![c] = "connection"]
    /\ handling' = [at |-> "connection", ws |-> c]
    /\ out' = NoOut
    /\ UNCHANGED nonRelayVars
    /\ UNCHANGED <<inflight, locationUpdates, emergencyAlerts, nmsgs>>

\* The closing handshake starts, or the transport is found to have failed.
BeginClose(c) ==
    /\ readyState[c] = "OPEN"
    /\ readyState' = [readyState EXCEPT ![c] = "CLOSING"]
    /\ Quiet
    /\ UNCHANGED <<inflight, locationUpdates, emergencyAlerts, nmsgs,
                   probeVars>>

\* clearInterval(pingInterval)
clearInterval(c) == [pingInterval EXCEPT ![c] = 0]

\* ws.on('error'): the library has started closing the socket when it emits
\* the event; the 'close' event follows.
OnError(c) ==
    /\ readyState[c] \in {"OPEN", "CLOSING"}
    /\ lastEvent[c] = "connection"
    /\ readyState' = [readyState EXCEPT ![c] = "CLOSING"]
    /\ pingInterval' = clearInterval(c)
    /\ lastEvent' = [lastEvent EXCEPT ![c] = "error"]
    /\ Quiet
    /\ UNCHANGED <<inflight, locationUpdates, emergencyAlerts, nmsgs>>

\* The keep-alive timer of a connection fires.
PingTick(c) ==
    /\ pingInterval[c] > 0
    /\ handling' = [at |-> "ping", ws |-> c]
    /\ out' = IF readyState[c] = "OPEN"
              THEN ForEachSend({c}, {}, "ping", Null)
              ELSE NoOut
    /\ UNCHANGED <<readyState, inflight, locationUpdates, emergencyAlerts,
                   nmsgs, probeVars, nonRelayVars>>

\* ws.on('close'), had it left the timer running.
CloseKeepsProbe(c) ==
    /\ readyState[c] = "CLOSING"
    /\ readyState' = [readyState EXCEPT ![c] = "CLOSED"]
    /\ lastEvent' = [lastEvent EXCEPT ![c] = "close"]
    /\ Quiet
    /\ UNCHANGED <<inflight, locationUpdates, emergencyAlerts, nmsgs,
                   pingInterval>>

\* ws.on('close'): the socket is closed and leaves wss.clients.
Close(c) ==
    /\ readyState[c] = "CLOSING"
    /\ readyState' = [readyState EXCEPT ![c] = "CLOSED"]
    /\ pingInterval' = clearInterval(c)
    /\ lastEvent' = [lastEvent EXCEPT ![c] = "close"]
    /\ Quiet
    /\ UNCHANGED <<inflight, locationUpdates, emergencyAlerts, nmsgs>>

\* A handler that stores the connection, not the body's id, as the subject.
HandleMessageBound(ws, data) ==
    /\ readyState[ws] = "OPEN"
    /\ nmsgs' = nmsgs + 1
    /\ handling' = [at |-> "message", ws |-> ws, data |-> data]
    /\ LET r == Dispatch(data) IN
        CASE r.kind = "throw" ->
                /\ Catch(ws, r.message)
                /\ UNCHANGED inflight
          [] r.kind = "await" ->
                /\ inflight' = inflight \cup
                      {[task |-> nmsgs + 1, ws |-> ws, data |-> data,
                        call |-> r.call,
                        args |-> [r.args EXCEPT !.userId = ws]]}
                /\ out' = NoOut
          [] r.kind = "none" ->
                /\ out' = NoOut
                /\ UNCHANGED inflight
    /\ UNCHANGED <<readyState, locationUpdates, emergencyAlerts, nonRelayVars,
                   probeVars>>

\* ws.on('message'), up to the first await or to the end of the handler.
HandleMessage(ws, data) ==
    /\ readyState[ws] = "OPEN"
    /\ nmsgs' = nmsgs + 1
    /\ handling' = [at |-> "message", ws |-> ws, data |-> data]
    /\ LET r == Dispatch(data) IN
        CASE r.kind = "throw" ->
                /\ Catch(ws, r.message)
                /\ UNCHANGED inflight
          [] r.kind = "await" ->
                /\ inflight' = inflight \cup
                      {[task |-> nmsgs + 1, ws |-> ws, data |-> data,
                        call |-> r.call, args |-> r.args]}
                /\ out' = NoOut
          [] r.kind = "none" ->
                /\ out' = NoOut
                /\ UNCHANGED inflight
    /\ UNCHANGED <<readyState, locationUpdates, emergencyAlerts, nonRelayVars,
                   probeVars>>

\* OnMessage, had the storage call not been awaited: the fan-out runs at
\* once, whatever becomes of the storage call.
OnMessageNoAwait(ws, data) ==
    /\ readyState[ws] = "OPEN"
    /\ nmsgs < MaxMsgs
    /\ nmsgs' = nmsgs + 1
    /\ handling' = [at |-> "message", ws |-> ws, data |-> data]
    /\ LET r == Dispatch(data) IN
        CASE r.kind = "throw" ->
                /\ Catch(ws, r.message)
                /\ UNCHANGED inflight
          [] r.kind = "await" ->
                /\ inflight' = inflight \cup
                      {[task |-> nmsgs + 1, ws |-> ws, data |-> data,
                        call |-> r.call, args |-> r.args]}
                /\ out' = IF r.call = "createLocationUpdate"
                          THEN ForEachSend(LocationRecipients(ws), {},
                                           "location_update",
                                           LocationEvent(data))
                          ELSE NoOut
          [] r.kind = "none" ->
                /\ out' = NoOut
                /\ UNCHANGED inflight
    /\ UNCHANGED <<readyState, locationUpdates, emergencyAlerts, nonRelayVars,
                   probeVars>>

\* The handler, for as many messages as the model lets through.
OnMessage(ws, data) == nmsgs < MaxMsgs /\ HandleMessage(ws, data)

\* A handler that gives up its fan-out when its own socket has closed.
PersistResolveIfSenderOpen(h) ==
    /\ h \in inflight
    /\ inflight' = inflight \ {h}
    /\ handling' = [at |-> "resolve", ws |-> h.ws, data |-> h.data]
    /\ \/ /\ h.call = "createLocationUpdate"
          /\ locationUpdates' = createLocationUpdate(h.args)
          /\ LET due == IF readyState[h.ws] = "OPEN"
                        THEN LocationRecipients(h.ws) ELSE {}
             IN  \E failing \in SUBSET due :
                    out' = ForEachSend(due, failing, "location_update",
                                       LocationEvent(h.data))
          /\ UNCHANGED emergencyAlerts
       \/ /\ h.call = "createEmergencyAlert"
          /\ emergencyAlerts' = createEmergencyAlert(h.args)
          /\ \E failing \in SUBSET EmergencyRecipients(h.ws) :
                out' = ForEachSend(EmergencyRecipients(h.ws), failing,
                                   "emergency_broadcast",
                                   emergencyAlerts'[Len(emergencyAlerts')])
          /\ UNCHANGED locationUpdates
    /\ UNCHANGED <<readyState, nmsgs, nonRelayVars, probeVars>>

\* The awaited storage call resolves: the row is inserted and the handler
\* runs on to its end, through the fan-out.
PersistResolve(h) ==
    /\ h \in inflight
    /\ inflight' = inflight \ {h}
    /\ handling' = [at |-> "resolve", ws |-> h.ws, data |-> h.data]
    /\ \/ /\ h.call = "createLocationUpdate"
          /\ locationUpdates' = createLocationUpdate(h.args)
          /\ \E failing \in SUBSET LocationRecipients(h.ws) :
                out' = ForEachSend(LocationRecipients(h.ws), failing,
                                   "location_update", LocationEvent(h.data))
          /\ UNCHANGED emergencyAlerts
       \/ /\ h.call = "createEmergencyAlert"
          /\ emergencyAlerts' = createEmergencyAlert(h.args)
          /\ \E failing \in SUBSET EmergencyRecipients(h.ws) :
                out' = ForEachSend(EmergencyRecipients(h.ws), failing,
                                   "emergency_broadcast",
                                   emergencyAlerts'[Len(emergencyAlerts')])
          /\ UNCHANGED locationUpdates
    /\ UNCHANGED <<readyState, nmsgs, nonRelayVars, probeVars>>

\* A handler whose fan-out goes ahead when the storage call rejects.
PersistRejectFanOut(h) ==
    /\ h \in inflight
    /\ inflight' = inflight \ {h}
    /\ handling' = [at |-> "reject", ws |-> h.ws, data |-> h.data]
    /\ out' = [c \in Conns |->
                IF c = h.ws /\ readyState[c] = "OPEN"
                THEN <<Frame("error", "storage error", TRUE)>>
                ELSE IF c \in LocationRecipients(h.ws)
                        /\ h.call = "createLocationUpdate"
                THEN <<Frame("location_update", LocationEvent(h.data), TRUE)>>
                ELSE <<>>]
    /\ UNCHANGED <<readyState, locationUpdates, emergencyAlerts, nmsgs,
                   nonRelayVars, probeVars>>

\* The awaited storage call rejects: the handler's catch block runs.
PersistReject(h) ==
    /\ h \in inflight
    /\ inflight' = inflight \ {h}
    /\ handling' = [at |-> "reject", ws |-> h.ws, data |-> h.data]
    /\ Catch(h.ws, "storage error")
    /\ UNCHANGED <<readyState, locationUpdates, emergencyAlerts, nmsgs,
                   nonRelayVars, probeVars>>

Next ==
    \/ \E c \in Conns : Connect(c)
    \/ \E c \in Conns : BeginClose(c)
    \/ \E c \in Conns : Close(c)
    \/ \E c \in Conns : OnError(c)
    \/ \E c \in Conns : PingTick(c)
    \/ \E c \in Conns, m \in Messages : OnMessage(c, m)
    \/ \E h \in inflight : PersistResolve(h)
    \/ \E h \in inflight : PersistReject(h)

Spec == Init /\ [][Next]_vars

\* The relay while no connection closes, receiving well-formed messages
\* only, one more than Spec lets through.
WellFormed == {m \in Messages : Dispatch(m).kind = "await"}

NextOrder ==
    \/ \E c \in Conns : Connect(c)
    \/ \E c \in Conns, m \in WellFormed :
          nmsgs < MaxMsgs + 1 /\ HandleMessage(c, m)
    \/ \E h \in inflight : PersistResolve(h)
    \/ \E h \in inflight : PersistReject(h)

SpecOrder == Init /\ [][NextOrder]_vars

\* The relay receiving what the browser client sends.
\* sendWSMessage(type, data): the frame is JSON.stringify({ type, data }).
sendWSMessage(type, data) == ("type" :> type) @@ ("data" :> data)

\* The two calls the client makes, with complete payloads.
ClientFrames ==
    { sendWSMessage("location_update",
                    [type |-> "location_update", id |-> 42, role |-> "user",
                     latitude |-> -1, longitude |-> 36, accuracy |-> 15,
                     timestamp |-> 1]),
      sendWSMessage("emergency_broadcast",
                    [id |-> 1, userId |-> 42, type |-> "Medical",
                     location |-> [latitude |-> -1, longitude |-> 36,
                                   accuracy |-> 15]]) }

NextWire ==
    \/ \E c \in Conns : Connect(c)
    \/ \E c \in Conns : BeginClose(c)
    \/ \E c \in Conns : Close(c)
    \/ \E c \in Conns, m \in ClientFrames :
          nmsgs < MaxMsgs + 1 /\ HandleMessage(c, m)

SpecWire == Init /\ [][NextWire]_vars

----------------------------------------------------------------------------
(* Resource assignment.  storage is one object literal that defines        *)
(* assignResources twice; the later property replaces the earlier, so the  *)
(* endpoints call the second definition.  SpecAssign is the program as it  *)
(* runs.  SpecAssignLoop runs the first definition in its place, one       *)
(* awaited database statement per step.                                    *)

Users == {"anonymous", "user", "admin"}

\* req.isAuthenticated()
isAuthenticated(user) == user # "anonymous"

Respond(status, body) == [status |-> status, body |-> body]

\* The isAdmin middleware: a response, or next().
isAdmin(user) ==
    IF ~isAuthenticated(user) THEN Respond(401, "Not authenticated")
    ELSE IF user # "admin"
         THEN Respond(403, "Unauthorized: Admin access required")
         ELSE "next" :> TRUE

\* parseInt(req.params.id), for the path segments sent here; FALSE is NaN.
IsNaN(param) == param \notin {"1", "2"}

parseInt(param) == IF param = "1" THEN 1 ELSE 2

\* The resourceIds of a request: one or two distinct resources.
ResourceLists ==
    {<<r>> : r \in Resources}
    \cup {rs \in Resources \X Resources : rs[1] # rs[2]}

\* The alerts the dispatchers work on: two alerts stored earlier.
ExistingAlerts ==
    [id \in 1..2 |->
        AlertRow(id, ("userId" :> 7) @@ ("emergencyType" :> "emergency_broadcast")
                     @@ ("description" :> "") @@ ("priority" :> "high"))]

\* The second, effective definition of storage.assignResources: it touches
\* no table and resolves with this value.
assignResources(emergencyId, resourceIds) == [success |-> TRUE]

InitAssign ==
    /\ readyState = [c \in Conns |-> "NONE"]
    /\ inflight = {}
    /\ locationUpdates = <<>>
    /\ emergencyAlerts = ExistingAlerts
    /\ nmsgs = 0
    /\ handling = NoMsg
    /\ out = NoOut
    /\ emergencyResources = [r \in Resources |-> "available"]
    /\ emergencyResourceAssignments = <<>>
    /\ calls = [k \in 1..MaxCalls |-> Idle]
    /\ pingInterval = [c \in Conns |-> 0]
    /\ lastEvent = [c \in Conns |-> "none"]
    /\ ClientStart
    /\ UiStart
    /\ UsersStart

\* The next request takes the first unused slot of calls.
NextCall(k) ==
    /\ k \in 1..MaxCalls
    /\ calls[k] = Idle
    /\ \A j \in 1..(k - 1) : calls[j] # Idle

Request(route, user, emergencyId, resourceIds) ==
    [route |-> route, user |-> user, emergencyId |-> emergencyId,
     resourceIds |-> resourceIds]

Responded(req, res) == [pc |-> "responded"] @@ req @@ res

\* POST /api/emergencies/assign-resources
PostAssignResources(k, user, emergencyId, resourceIds) ==
    /\ NextCall(k)
    /\ LET req == Request("assign-resources", user, emergencyId, resourceIds)
           res == IF ~isAuthenticated(user)
                  THEN Respond(401, "Not authenticated")
                  ELSE Respond(200, assignResources(emergencyId, resourceIds))
       IN  calls' = [calls EXCEPT ![k] = Responded(req, res)]
    /\ UNCHANGED <<nonAssignVars, emergencyAlerts, emergencyResources,
                   emergencyResourceAssignments>>

\* POST /api/admin/emergencies/:id/assign-resources
PostAdminAssignResources(k, user, param, resourceIds) ==
    /\ NextCall(k)
    /\ LET gate == isAdmin(user)
           emergencyId == parseInt(param)
           req == IF IsNaN(param)
                  THEN [route |-> "admin/assign-resources", user |-> user,
                        resourceIds |-> resourceIds]
                  ELSE Request("admin/assign-resources", user, emergencyId,
                               resourceIds)
           res == IF ~Has(gate, "next") THEN gate
                  ELSE IF IsNaN(param)
                       THEN Respond(400, "Invalid emergency ID")
                       ELSE Respond(200, assignResources(emergencyId,
                                                         resourceIds))
       IN  calls' = [calls EXCEPT ![k] = Responded(req, res)]
    /\ UNCHANGED <<nonAssignVars, emergencyAlerts, emergencyResources,
                   emergencyResourceAssignments>>

NextAssign ==
    \/ \E k \in 1..MaxCalls, user \in Users, e \in DOMAIN ExistingAlerts,
          rids \in ResourceLists : PostAssignResources(k, user, e, rids)
    \/ \E k \in 1..MaxCalls, user \in Users, param \in {"1", "2", "abc"},
          rids \in ResourceLists : PostAdminAssignResources(k, user, param, rids)

SpecAssign == InitAssign /\ [][NextAssign]_vars

\* JSON.stringify of an array of numbers.
RECURSIVE Join(_)
Join(list) ==
    IF Len(list) = 0 THEN ""
    ELSE IF Len(list) = 1 THEN ToString(list[1])
         ELSE ToString(list[1]) \o "," \o Join(Tail(list))

JSONstringify(list) == "[" \o Join(list) \o "]"

\* The arrays the column can hold here: one entry per resource id of a call.
IdLists == UNION {[1..n -> Resources] : n \in 0..(MaxCalls * NumResources)}

\* JSON.parse of a text JSON.stringify wrote.
JSONparse(text) == CHOOSE list \in IdLists : JSONstringify(list) = text

\* The first definition of storage.assignResources, entered: the loop is at
\* its first resource id and has made no statement yet.
LoopCall(k, emergencyId, resourceIds) ==
    /\ NextCall(k)
    /\ calls' = [calls EXCEPT ![k] =
                   [pc |-> "insert", i |-> 1, assignments |-> <<>>]
                   @@ Request("assign-resources", "user", emergencyId,
                              resourceIds)]
    /\ UNCHANGED <<nonAssignVars, emergencyAlerts, emergencyResources,
                   emergencyResourceAssignments>>

\* db.insert(emergencyResourceAssignments) ... .returning()
LoopInsert(k) ==
    /\ calls[k].pc = "insert"
    /\ LET call == calls[k]
           assignment == [id |-> Len(emergencyResourceAssignments) + 1,
                          emergencyId |-> call.emergencyId,
                          resourceId |-> call.resourceIds[call.i],
                          status |-> "assigned"]
       IN  /\ emergencyResourceAssignments' =
                 Append(emergencyResourceAssignments, assignment)
           /\ calls' = [calls EXCEPT ![k] =
                          ("pc" :> "flip") @@ ("assignment" :> assignment)
                          @@ call]
    /\ UNCHANGED <<nonAssignVars, emergencyAlerts, emergencyResources>>

\* db.update(emergencyResources).set({ status: 'in_use' })
LoopFlip(k) ==
    /\ calls[k].pc = "flip"
    /\ LET resourceId == calls[k].resourceIds[calls[k].i]
       IN  emergencyResources' =
               [emergencyResources EXCEPT ![resourceId] = "in_use"]
    /\ calls' = [calls EXCEPT ![k].pc = "select"]
    /\ UNCHANGED <<nonAssignVars, emergencyAlerts, emergencyResourceAssignments>>

\* The end of one iteration: assignments.push(assignment), then the next
\* resource id, or return assignments.
LoopAdvance(call) ==
    LET assignments == Append(call.assignments, call.assignment)
    IN  IF call.i = Len(call.resourceIds)
        THEN ("pc" :> "responded") @@ ("i" :> call.i + 1)
             @@ Respond(200, assignments) @@ call
        ELSE ("pc" :> "insert") @@ ("i" :> call.i + 1)
             @@ ("assignments" :> assignments) @@ call

\* db.select().from(emergencyAlerts).where(id = emergencyId): the row read
\* is kept; without a row the iteration ends here.
LoopSelect(k) ==
    /\ calls[k].pc = "select"
    /\ LET call == calls[k]
       IN  calls' = [calls EXCEPT ![k] =
                       IF call.emergencyId \in DOMAIN emergencyAlerts
                       THEN ("pc" :> "update")
                            @@ ("emergency" :> emergencyAlerts[call.emergencyId])
                            @@ call
                       ELSE LoopAdvance(call)]
    /\ UNCHANGED <<nonAssignVars, emergencyAlerts, emergencyResources,
                   emergencyResourceAssignments>>

\* db.update(emergencyAlerts).set({ assignedResources: ... }): the list is
\* the one of the row read, with the resource id pushed.
LoopUpdate(k) ==
    /\ calls[k].pc = "update"
    /\ LET call == calls[k]
           read == call.emergency.assignedResources
           assignedResources ==
               Append(IF read # Null THEN JSONparse(read) ELSE <<>>,
                      call.resourceIds[call.i])
       IN  /\ emergencyAlerts' =
                 [emergencyAlerts EXCEPT ![call.emergencyId] =
                     ("assignedResources" :> JSONstringify(assignedResources))
                     @@ @]
           /\ calls' = [calls EXCEPT ![k] = LoopAdvance(call)]
    /\ UNCHANGED <<nonAssignVars, emergencyResources,
                   emergencyResourceAssignments>>

\* An awaited statement rejects: the loop is left where it stands and the
\* endpoint's catch answers 500.  No statement undoes an earlier one.
LoopReject(k) ==
    /\ calls[k].pc \in {"insert", "flip", "select", "update"}
    /\ calls' = [calls EXCEPT ![k] =
                   ("pc" :> "responded") @@ ("failedAt" :> calls[k].pc)
                   @@ Respond(500, "Internal server error") @@ calls[k]]
    /\ UNCHANGED <<nonAssignVars, emergencyAlerts, emergencyResources,
                   emergencyResourceAssignments>>

NextAssignLoop ==
    \/ \E k \in 1..MaxCalls, e \in DOMAIN ExistingAlerts,
          rids \in ResourceLists : LoopCall(k, e, rids)
    \/ \E k \in 1..MaxCalls : LoopInsert(k)
    \/ \E k \in 1..MaxCalls : LoopFlip(k)
    \/ \E k \in 1..MaxCalls : LoopSelect(k)
    \/ \E k \in 1..MaxCalls : LoopUpdate(k)
    \/ \E k \in 1..MaxCalls : LoopReject(k)

SpecAssignLoop == InitAssign /\ [][NextAssignLoop]_vars

----------------------------------------------------------------------------
(* The browser's socket module.  Every WebSocket the module creates keeps  *)
(* the onopen and onclose handlers it was given, whether or not the        *)
(* variable ws still refers to it.                                         *)

\* RECONNECT_DELAY * Math.pow(2, reconnectAttempts - 1), in milliseconds.
Delay(attempts) ==
    IF attempts = 0 THEN RECONNECT_DELAY \div 2
    ELSE RECONNECT_DELAY * 2 ^ (attempts - 1)

\* connectWebSocket(): nothing if ws is open, else a new socket replaces ws.
connectWebSocket(cl) ==
    IF cl.sockets[cl.ws] = "OPEN" THEN cl
    ELSE [cl EXCEPT !.sockets = Append(@, "CONNECTING"),
                    !.ws = Len(cl.sockets) + 1]

\* A new socket can still be created within the bound, or none is needed.
CanConnect == Len(client.sockets) < MaxSockets
                 \/ client.sockets[client.ws] = "OPEN"

\* A caller outside the module calls connectWebSocket(): a component that
\* mounts, or sendWSMessage finding ws not open.
CallConnect ==
    /\ CanConnect
    /\ client.sockets[client.ws] # "OPEN"
    /\ client' = [connectWebSocket(client) EXCEPT !.toast = "none"]
    /\ UNCHANGED <<relayVars, emergencyAlerts, assignVars, userVars, uiVars>>

\* ws.onopen of socket s
OnOpen(s) ==
    /\ client.sockets[s] = "CONNECTING"
    /\ client' = [client EXCEPT !.sockets[s] = "OPEN",
                                !.reconnectAttempts = 0,
                                !.lastDelay = 0,
                                !.toast = "none"]
    /\ UNCHANGED <<relayVars, emergencyAlerts, assignVars, userVars, uiVars>>

\* ws.onclose of socket s: a timer is set, its delay computed from the
\* counter as it is now, or the error is shown.
OnClose(s) ==
    /\ client.sockets[s] \in {"CONNECTING", "OPEN"}
    /\ client' =
          IF client.reconnectAttempts < MAX_RECONNECT_ATTEMPTS
          THEN [client EXCEPT !.sockets[s] = "CLOSED",
                              !.timers =
                                  Append(@, Delay(client.reconnectAttempts)),
                              !.lastDelay = Delay(client.reconnectAttempts),
                              !.toast = "none"]
          ELSE [client EXCEPT !.sockets[s] = "CLOSED",
                              !.toast = "Lost connection to server"]
    /\ UNCHANGED <<relayVars, emergencyAlerts, assignVars, userVars, uiVars>>

\* The pending timers without the i-th.
Remove(timers, i) ==
    [j \in 1..(Len(timers) - 1) |-> IF j < i THEN timers[j] ELSE timers[j + 1]]

\* The i-th pending timer fires: reconnectAttempts++; connectWebSocket().
\* Timers are kept in the order they were set; one set earlier with no
\* longer a delay fires first.
TimerFire(i) ==
    /\ i \in DOMAIN client.timers
    /\ \A j \in 1..(i - 1) : client.timers[j] > client.timers[i]
    /\ CanConnect
    /\ client' = connectWebSocket(
                    [client EXCEPT !.timers = Remove(@, i),
                                   !.reconnectAttempts = @ + 1,
                                   !.toast = "none"])
    /\ UNCHANGED <<relayVars, emergencyAlerts, assignVars, userVars, uiVars>>

NextClient ==
    \/ CallConnect
    \/ \E s \in DOMAIN client.sockets : OnOpen(s)
    \/ \E s \in DOMAIN client.sockets : OnClose(s)
    \/ \E i \in DOMAIN client.timers : TimerFire(i)

SpecClient == Init /\ [][NextClient]_vars

----------------------------------------------------------------------------
(* The emergency modal's fetchLocation.  A chain is one closure of         *)
(* fetchLocation with the calls that follow from it: the closure holds the *)
(* retryCount of the render that made it, and the timer it sets calls the  *)
(* same closure again.                                                     *)

\* The effect runs with the modal open: startWatchingLocation();
\* fetchLocation(), the closure of the current render.
RunEffect ==
    /\ Len(modal.chains) < MaxChains
    /\ modal' = [modal EXCEPT !.chains =
                    Append(@, [retryCount |-> modal.retryCount,
                               pc |-> "getCurrentLocation",
                               fetches |-> 1, timeout |-> 0])]
    /\ UNCHANGED <<relayVars, emergencyAlerts, assignVars, userVars, client,
                   listeners>>

\* getCurrentLocation resolves with a location: setLocationData,
\* setRetryCount(0).
LocationFound(c) ==
    /\ modal.chains[c].pc = "getCurrentLocation"
    /\ modal' = [modal EXCEPT !.retryCount = 0, !.chains[c].pc = "done"]
    /\ UNCHANGED <<relayVars, emergencyAlerts, assignVars, userVars, client,
                   listeners>>

\* getCurrentLocation resolves with null: a timer is set if the closure's
\* retryCount is below MAX_RETRIES.
LocationMissing(c) ==
    /\ modal.chains[c].pc = "getCurrentLocation"
    /\ LET chain == modal.chains[c]
       IN  modal' = [modal EXCEPT !.chains[c] =
              IF chain.retryCount < MAX_RETRIES
              THEN [chain EXCEPT !.pc = "setTimeout",
                                 !.timeout = 2 ^ chain.retryCount * 1000]
              ELSE [chain EXCEPT !.pc = "done"]]
    /\ UNCHANGED <<relayVars, emergencyAlerts, assignVars, userVars, client,
                   listeners>>

\* The timer fires: setRetryCount(prev => prev + 1); fetchLocation().
RetryTimer(c) ==
    /\ modal.chains[c].pc = "setTimeout"
    /\ modal.chains[c].fetches < MaxFetches
    /\ modal' = [modal EXCEPT !.retryCount = @ + 1,
                              !.chains[c].pc = "getCurrentLocation",
                              !.chains[c].fetches = @ + 1]
    /\ UNCHANGED <<relayVars, emergencyAlerts, assignVars, userVars, client,
                   listeners>>

NextModal ==
    \/ RunEffect
    \/ \E c \in DOMAIN modal.chains : LocationFound(c)
    \/ \E c \in DOMAIN modal.chains : LocationMissing(c)
    \/ \E c \in DOMAIN modal.chains : RetryTimer(c)

SpecModal == Init /\ [][NextModal]_vars

----------------------------------------------------------------------------
(* addWSListener.  Each call makes one messageHandler; `on` is the set of  *)
(* sockets whose 'message' event it is attached to.  `last` records the    *)
(* latest message event: the socket it arrived on, whether that socket     *)
(* was ws, the handlers it invoked, and the handlers that were added and   *)
(* not removed, or removed, at that moment.                                *)

\* The handlers returned by addWSListener and not removed since.
Added == {l \in 1..MaxListeners : listeners.handlers[l].state = "added"}

\* The handlers whose remove function has been called.
Removed == {l \in 1..MaxListeners : listeners.handlers[l].state = "removed"}

\* addWSListener(callback): ws is set since the module was loaded, so the
\* handler is attached to the socket ws refers to at the time of the call.
addWSListener(cl, l) ==
    [listeners EXCEPT !.handlers[l] = [on |-> {cl.ws}, state |-> "added"]]

\* The function addWSListener returned: the handler is detached from the
\* socket ws refers to at the time of this call.
removeListener(cl, l) ==
    [listeners EXCEPT !.handlers[l] = [on |-> @.on \ {cl.ws},
                                       state |-> "removed"]]

\* The provider's effect runs: connectWebSocket(), then addWSListener.
Mount(l) ==
    /\ listeners.handlers[l].state = "none"
    /\ CanConnect
    /\ client' = [connectWebSocket(client) EXCEPT !.toast = "none"]
    /\ listeners' = addWSListener(client', l)
    /\ UNCHANGED <<relayVars, emergencyAlerts, assignVars, userVars, modal>>

\* The effect's cleanup runs: removeListener().
Unmount(l) ==
    /\ listeners.handlers[l].state = "added"
    /\ listeners' = removeListener(client, l)
    /\ UNCHANGED <<relayVars, emergencyAlerts, assignVars, userVars, client,
                   modal>>

\* A message event on open socket s: the handlers attached to s run.
MessageArrives(s) ==
    /\ client.sockets[s] = "OPEN"
    /\ listeners' = [listeners EXCEPT
                        !.last = [socket |-> s,
                                  current |-> (s = client.ws),
                                  invoked |-> {l \in 1..MaxListeners :
                                      s \in listeners.handlers[l].on},
                                  added |-> Added,
                                  removed |-> Removed]]
    /\ UNCHANGED <<relayVars, emergencyAlerts, assignVars, userVars, client,
                   modal>>

NextListen ==
    \/ \E s \in DOMAIN client.sockets : OnOpen(s)
    \/ \E s \in DOMAIN client.sockets : OnClose(s)
    \/ \E i \in DOMAIN client.timers : TimerFire(i)
    \/ \E l \in 1..MaxListeners : Mount(l)
    \/ \E l \in 1..MaxListeners : Unmount(l)
    \/ \E s \in DOMAIN client.sockets : MessageArrives(s)

SpecListen == Init /\ [][NextListen]_vars

----------------------------------------------------------------------------
(* The REST operations on emergency alerts.                                *)

\* Request bodies of POST /api/emergencies; one names a status of its own.
CreateBodies ==
    {("emergencyType" :> "medical") @@ ("description" :> "")
         @@ ("priority" :> "high"),
     ("emergencyType" :> "fire") @@ ("description" :> "")
         @@ ("priority" :> "high") @@ ("status" :> "cancelled")}

\* Request bodies of PUT /api/admin/emergencies/:id: any JSON object.
UpdateBodies ==
    {"status" :> s : s \in {"pending", "active", "in_progress", "resolved",
                            "cancelled"}}
    \cup {"priority" :> "low"}

\* db.update(emergencyAlerts).set(data).where(id = id)
UpdateWhereId(id, data) ==
    [i \in DOMAIN emergencyAlerts |->
        IF emergencyAlerts[i].id = id THEN data @@ emergencyAlerts[i]
        ELSE emergencyAlerts[i]]

\* storage.updateEmergency: the fields given replace the row's.
updateEmergency(id, data) == UpdateWhereId(id, data)

\* storage.resolveEmergency
resolveEmergency(id) == UpdateWhereId(id, "status" :> "resolved")

\* The user ids of the sessions.
UserId(user) == IF user = "admin" THEN 1 ELSE 7

\* POST /api/emergencies
PostEmergency(user, body) ==
    /\ Len(emergencyAlerts) < MaxAlerts
    /\ emergencyAlerts' =
          IF isAuthenticated(user)
          THEN createEmergencyAlert(("userId" :> UserId(user)) @@ body)
          ELSE emergencyAlerts
    /\ UNCHANGED <<relayVars, assignVars, clientVars, userVars>>

\* POST /api/emergencies/:id/resolve
PostResolve(user, param) ==
    /\ emergencyAlerts' =
          IF isAuthenticated(user)
          THEN resolveEmergency(parseInt(param))
          ELSE emergencyAlerts
    /\ UNCHANGED <<relayVars, assignVars, clientVars, userVars>>

\* PUT /api/admin/emergencies/:id
PutAdminEmergency(user, param, body) ==
    /\ emergencyAlerts' =
          IF Has(isAdmin(user), "next") /\ ~IsNaN(param)
          THEN updateEmergency(parseInt(param), body)
          ELSE emergencyAlerts
    /\ UNCHANGED <<relayVars, assignVars, clientVars, userVars>>

NextAlerts ==
    \/ \E user \in Users, body \in CreateBodies : PostEmergency(user, body)
    \/ \E user \in Users, param \in {"1", "2"} : PostResolve(user, param)
    \/ \E user \in Users, param \in {"1", "2", "abc"}, body \in UpdateBodies :
          PutAdminEmergency(user, param, body)

SpecAlerts == Init /\ [][NextAlerts]_vars

----------------------------------------------------------------------------
(* POST /api/register: three storage calls, each awaited.  A step runs the *)
(* handler from the return of one call to the issue of the next.           *)

\* Request bodies: a username, and the role the client asks for, if any.
RegisterBodies ==
    LET names == {("username" :> u) : u \in {"amina", "baraka"}}
    IN  names \cup {n @@ ("role" :> r) : n \in names, r \in {"admin", "user"}}

\* storage.getUserByUsername: the row, or undefined.
getUserByUsername(username) ==
    {users[i] : i \in {j \in DOMAIN users : users[j].username = username}}

\* storage.getUserCount: count(*) of the users table.
getUserCount == Len(users)

\* storage.createUser: the row inserted, role defaulting to 'user'.
createUser(userData) ==
    Append(users, [id |-> Len(users) + 1, username |-> userData.username,
                   role |-> OrElse(userData, "role", "user")])

\* The next request takes the first unused slot of registrations.
NextRegistration(k) ==
    /\ registrations[k].pc = "idle"
    /\ \A j \in 1..(k - 1) : registrations[j].pc # "idle"

\* The request arrives: getUserByUsername is called.
PostRegister(k, body) ==
    /\ NextRegistration(k)
    /\ registrations' = [registrations EXCEPT ![k] =
                            [pc |-> "getUserByUsername", body |-> body]]
    /\ UNCHANGED <<relayVars, emergencyAlerts, assignVars, clientVars, users,
                   dependentVars>>

\* getUserByUsername returns: 400 if the name is taken, else getUserCount
\* is called.
RegisterLookedUp(k) ==
    /\ registrations[k].pc = "getUserByUsername"
    /\ registrations' = [registrations EXCEPT ![k] =
          IF getUserByUsername(@.body.username) # {}
          THEN [pc |-> "responded", body |-> @.body, status |-> 400]
          ELSE [pc |-> "getUserCount", body |-> @.body]]
    /\ UNCHANGED <<relayVars, emergencyAlerts, assignVars, clientVars, users,
                   dependentVars>>

\* getUserCount returns: the role is chosen and createUser is called with
\* { ...req.body, role }.
RegisterCounted(k) ==
    /\ registrations[k].pc = "getUserCount"
    /\ LET role == IF getUserCount = 0 THEN "admin" ELSE "user"
       IN  registrations' = [registrations EXCEPT ![k] =
              [pc |-> "createUser", body |-> @.body,
               userData |-> ("role" :> role) @@ @.body]]
    /\ UNCHANGED <<relayVars, emergencyAlerts, assignVars, clientVars, users,
                   dependentVars>>

\* createUser returns: 201 with the new user, or the insert broke the
\* unique constraint on username and the catch block answers 500.
RegisterCreated(k) ==
    /\ registrations[k].pc = "createUser"
    /\ IF getUserByUsername(registrations[k].userData.username) # {}
       THEN /\ registrations' = [registrations EXCEPT ![k] =
                  [pc |-> "responded", body |-> @.body, status |-> 500]]
            /\ UNCHANGED users
       ELSE /\ users' = createUser(registrations[k].userData)
            /\ registrations' = [registrations EXCEPT ![k] =
                  [pc |-> "responded", body |-> @.body, status |-> 201,
                   newUser |-> users'[Len(users')]]]
    /\ UNCHANGED <<relayVars, emergencyAlerts, assignVars, clientVars,
                   dependentVars>>

\* A storage call of the request rejects: the catch block answers 500.
RegisterRejected(k) ==
    /\ registrations[k].pc \in {"getUserByUsername", "getUserCount", "createUser"}
    /\ registrations' = [registrations EXCEPT ![k] =
          [pc |-> "responded", body |-> @.body, status |-> 500]]
    /\ UNCHANGED <<relayVars, emergencyAlerts, assignVars, clientVars, users,
                   dependentVars>>

NextRegister ==
    \/ \E k \in 1..MaxRegs, body \in RegisterBodies : PostRegister(k, body)
    \/ \E k \in 1..MaxRegs : RegisterLookedUp(k)
    \/ \E k \in 1..MaxRegs : RegisterCounted(k)
    \/ \E k \in 1..MaxRegs : RegisterCreated(k)
    \/ \E k \in 1..MaxRegs : RegisterRejected(k)

SpecRegister == Init /\ [][NextRegister]_vars

----------------------------------------------------------------------------
(* DELETE /api/admin/users/:id and storage.deleteUser, over a database     *)
(* that holds an admin (id 1), two users (ids 2 and 3) and their records.  *)

Owners == {2, 3}

\* One row per owner of the set, in the order of the owners' ids.
RowsOf(owners) ==
    LET ids == IF owners = {2, 3} THEN <<2, 3>>
               ELSE IF owners = {2} THEN <<2>>
               ELSE IF owners = {3} THEN <<3>> ELSE <<>>
    IN  [i \in DOMAIN ids |-> [id |-> i, userId |-> ids[i]]]

\* Up to two alerts, each of one of the owners.
StoredAlerts ==
    UNION {{[i \in 1..n |->
               AlertRow(i, ("userId" :> o[i]) @@ ("emergencyType" :> "medical")
                           @@ ("description" :> "") @@ ("priority" :> "high"))] :
            o \in [1..n -> Owners]} : n \in 0..2}

\* Resource 1 assigned to the alerts of the set.
AssignmentsOf(alertIds) ==
    LET ids == IF alertIds = {1, 2} THEN <<1, 2>>
               ELSE IF alertIds = {1} THEN <<1>>
               ELSE IF alertIds = {2} THEN <<2>> ELSE <<>>
    IN  [i \in DOMAIN ids |->
            [id |-> i, emergencyId |-> ids[i], resourceId |-> 1,
             status |-> "assigned"]]

InitDelete ==
    /\ readyState = [c \in Conns |-> "NONE"]
    /\ inflight = {}
    /\ nmsgs = 0
    /\ handling = NoMsg
    /\ out = NoOut
    /\ emergencyResources = [r \in Resources |-> "available"]
    /\ calls = [k \in 1..MaxCalls |-> Idle]
    /\ pingInterval = [c \in Conns |-> 0]
    /\ lastEvent = [c \in Conns |-> "none"]
    /\ ClientStart
    /\ UiStart
    /\ registrations = [k \in 1..MaxRegs |-> [pc |-> "idle"]]
    /\ users = <<[id |-> 1, username |-> "amina", role |-> "admin"],
                 [id |-> 2, username |-> "baraka", role |-> "user"],
                 [id |-> 3, username |-> "chege", role |-> "user"]>>
    /\ emergencyAlerts \in StoredAlerts
    /\ \E a \in SUBSET DOMAIN emergencyAlerts :
          emergencyResourceAssignments = AssignmentsOf(a)
    /\ \E o \in SUBSET Owners :
          locationUpdates =
             [i \in DOMAIN RowsOf(o) |->
                 RowsOf(o)[i] @@ [latitude |-> "-1", longitude |-> "36",
                                  accuracy |-> Null, source |-> "user"]]
    /\ \E o \in SUBSET Owners : medicalInfo = RowsOf(o)
    /\ \E o \in SUBSET Owners : emergencyContacts = RowsOf(o)
    /\ deletions = [k \in 1..MaxDeletes |-> [pc |-> "idle"]]

\* storage.getUser: the row, or undefined.
getUser(id) == {users[i] : i \in {j \in DOMAIN users : users[j].id = id}}

\* DELETE ... WHERE user_id = id
DeleteWhereUserId(table, id) == SelectSeq(table, LAMBDA row : row.userId # id)

\* The alerts of a user.
AlertsOf(id) ==
    {emergencyAlerts[i].id :
        i \in {j \in DOMAIN emergencyAlerts : emergencyAlerts[j].userId = id}}

\* emergency_resource_assignments.emergency_id references emergency_alerts
\* with ON DELETE no action: an alert with an assignment cannot be deleted.
Restricted(id) ==
    \E i \in DOMAIN emergencyResourceAssignments :
        emergencyResourceAssignments[i].emergencyId \in AlertsOf(id)

\* DELETE FROM users WHERE id = id, when no constraint stands in the way:
\* the rows that reference the user with ON DELETE cascade go with it.
DeleteUserRow(id) ==
    /\ users' = SelectSeq(users, LAMBDA row : row.id # id)
    /\ locationUpdates' = DeleteWhereUserId(locationUpdates, id)
    /\ medicalInfo' = DeleteWhereUserId(medicalInfo, id)
    /\ emergencyContacts' = DeleteWhereUserId(emergencyContacts, id)
    /\ emergencyAlerts' = DeleteWhereUserId(emergencyAlerts, id)
    /\ UNCHANGED emergencyResourceAssignments

\* The second, effective definition of storage.deleteUser: one statement,
\* which the database carries out as a whole or rejects as a whole.
deleteUser(id) ==
    IF Restricted(id)
    THEN UNCHANGED <<users, locationUpdates, medicalInfo, emergencyContacts,
                     emergencyAlerts, emergencyResourceAssignments>>
    ELSE DeleteUserRow(id)

\* The next request takes the first unused slot of deletions.
NextDeletion(k) ==
    /\ deletions[k].pc = "idle"
    /\ \A j \in 1..(k - 1) : deletions[j].pc # "idle"

\* The request handler without its test for the caller's own id.
DeleteUserRequestAnyId(k, user, param) ==
    /\ NextDeletion(k)
    /\ LET req == [user |-> user, param |-> param]
           mw == isAdmin(user)
       IN  deletions' = [deletions EXCEPT ![k] =
              IF Has(mw, "status") THEN Responded(req, mw)
              ELSE IF IsNaN(param)
              THEN Responded(req, Respond(400, "Invalid user ID"))
              ELSE [pc |-> "getUser", userId |-> parseInt(param)] @@ req]
    /\ UNCHANGED <<relayVars, emergencyResources, calls, clientVars,
                   registrations>>
    /\ UNCHANGED <<users, locationUpdates, medicalInfo, emergencyContacts,
                   emergencyAlerts, emergencyResourceAssignments>>

\* The request arrives: the middleware and the checks before the first
\* await, then getUser is called.
DeleteUserRequest(k, user, param) ==
    /\ NextDeletion(k)
    /\ LET req == [user |-> user, param |-> param]
           mw == isAdmin(user)
       IN  deletions' = [deletions EXCEPT ![k] =
              IF Has(mw, "status") THEN Responded(req, mw)
              ELSE IF IsNaN(param)
              THEN Responded(req, Respond(400, "Invalid user ID"))
              ELSE IF UserId(user) = parseInt(param)
              THEN Responded(req, Respond(400, "Cannot delete your own account"))
              ELSE [pc |-> "getUser", userId |-> parseInt(param)] @@ req]
    /\ UNCHANGED <<relayVars, emergencyResources, calls, clientVars,
                   registrations>>
    /\ UNCHANGED <<users, locationUpdates, medicalInfo, emergencyContacts,
                   emergencyAlerts, emergencyResourceAssignments>>

\* getUser returns: 404 if there is no such user, else deleteUser is called.
DeleteLookedUp(k) ==
    /\ deletions[k].pc = "getUser"
    /\ deletions' = [deletions EXCEPT ![k] =
          IF getUser(@.userId) = {}
          THEN ("pc" :> "responded") @@ Respond(404, "User not found") @@ @
          ELSE ("pc" :> "deleteUser") @@ @]
    /\ UNCHANGED <<relayVars, emergencyResources, calls, clientVars,
                   registrations>>
    /\ UNCHANGED <<users, locationUpdates, medicalInfo, emergencyContacts,
                   emergencyAlerts, emergencyResourceAssignments>>

\* deleteUser returns: 200, or the statement was rejected and the catch
\* block answers 500.
DeleteReturned(k) ==
    /\ deletions[k].pc = "deleteUser"
    /\ deleteUser(deletions[k].userId)
    /\ deletions' = [deletions EXCEPT ![k] =
          IF Restricted(@.userId)
          THEN ("pc" :> "responded") @@ Respond(500, "Internal server error") @@ @
          ELSE ("pc" :> "responded")
               @@ Respond(200, "User deleted successfully") @@ @]
    /\ UNCHANGED <<relayVars, emergencyResources, calls, clientVars,
                   registrations>>

NextDelete ==
    \/ \E k \in 1..MaxDeletes, user \in Users, param \in {"1", "2", "abc"} :
          DeleteUserRequest(k, user, param)
    \/ \E k \in 1..MaxDeletes : DeleteLookedUp(k)
    \/ \E k \in 1..MaxDeletes : DeleteReturned(k)

SpecDelete == InitDelete /\ [][NextDelete]_vars

\* The first definition of storage.deleteUser, which the second one
\* replaces: six statements, each awaited, none in a transaction.
\* Statement i of the call, for the user with this id.
DeleteStatement(i, id) ==
    CASE i = 1 ->
            /\ emergencyResourceAssignments' =
                  SelectSeq(emergencyResourceAssignments,
                            LAMBDA row : row.emergencyId \notin AlertsOf(id))
            /\ UNCHANGED <<users, locationUpdates, medicalInfo,
                           emergencyContacts, emergencyAlerts>>
      [] i = 2 ->
            /\ locationUpdates' = DeleteWhereUserId(locationUpdates, id)
            /\ UNCHANGED <<users, medicalInfo, emergencyContacts,
                           emergencyAlerts, emergencyResourceAssignments>>
      [] i = 3 ->
            /\ emergencyContacts' = DeleteWhereUserId(emergencyContacts, id)
            /\ UNCHANGED <<users, locationUpdates, medicalInfo,
                           emergencyAlerts, emergencyResourceAssignments>>
      [] i = 4 ->
            /\ emergencyAlerts' =
                  IF Restricted(id) THEN emergencyAlerts
                  ELSE DeleteWhereUserId(emergencyAlerts, id)
            /\ UNCHANGED <<users, locationUpdates, medicalInfo,
                           emergencyContacts, emergencyResourceAssignments>>
      [] i = 5 ->
            /\ medicalInfo' = DeleteWhereUserId(medicalInfo, id)
            /\ UNCHANGED <<users, locationUpdates, emergencyContacts,
                           emergencyAlerts, emergencyResourceAssignments>>
      [] i = 6 -> deleteUser(id)

\* One statement of the call returns: the next one is issued, or the
\* handler answers.
DeleteOrdered(k) ==
    /\ deletions[k].pc = "deleteUser"
    /\ LET i == IF Has(deletions[k], "i") THEN deletions[k].i ELSE 1
           id == deletions[k].userId
       IN  /\ DeleteStatement(i, id)
           /\ deletions' = [deletions EXCEPT ![k] =
                 IF i \in {4, 6} /\ Restricted(id)
                 THEN ("pc" :> "responded")
                      @@ Respond(500, "Internal server error") @@ @
                 ELSE IF i = 6
                 THEN ("pc" :> "responded")
                      @@ Respond(200, "User deleted successfully") @@ @
                 ELSE ("i" :> i + 1) @@ @]
    /\ UNCHANGED <<relayVars, emergencyResources, calls, clientVars,
                   registrations>>

NextDeleteOrdered ==
    \/ \E k \in 1..MaxDeletes, user \in Users, param \in {"1", "2", "abc"} :
          DeleteUserRequest(k, user, param)
    \/ \E k \in 1..MaxDeletes : DeleteLookedUp(k)
    \/ \E k \in 1..MaxDeletes : DeleteOrdered(k)

SpecDeleteOrdered == InitDelete /\ [][NextDeleteOrdered]_vars

----------------------------------------------------------------------------
(* Vocabulary of the relay's properties.  A step of a message handler is   *)
(* told by handling': "message" when the frame arrives, "resolve" or       *)
(* "reject" when the awaited storage call returns.                         *)

IsLocationUpdate(d) == Has(d, "type") /\ d.type = "location_update"

IsEmergencyBroadcast(d) == Has(d, "type") /\ d.type = "emergency_broadcast"

FanOutTypes == {"location_update", "emergency_broadcast"}

\* The handler suspended by this step, at the storage call `call`.
Awaits(call) ==
    /\ out' = NoOut
    /\ locationUpdates' = locationUpdates
    /\ emergencyAlerts' = emergencyAlerts
    /\ \E h \in inflight' \ inflight :
          /\ inflight' = inflight \cup {h}
          /\ h.ws = handling'.ws /\ h.data = handling'.data /\ h.call = call

\* This step sent connection c exactly one frame, of the given type.
SentOne(c, type) == Len(out'[c]) = 1 /\ out'[c][1].type = type

\* This step sent exactly one error frame, to ws, and nothing to anyone else.
ErrorReplyOnly(ws) ==
    /\ SentOne(ws, "error")
    /\ \A c \in Conns \ {ws} : out'[c] = <<>>

NothingPersisted ==
    /\ locationUpdates' = locationUpdates
    /\ emergencyAlerts' = emergencyAlerts

LastRow(table) == table[Len(table)]

----------------------------------------------------------------------------
(* C1 (as claimed): every location_update message that carries an id and   *)
(* a numeric latitude and longitude, zero and negative values included,    *)
(* reaches the storage call, and when the call resolves exactly one        *)
(* LocationUpdate row with the same latitude, longitude and accuracy has   *)
(* been added and exactly the open connections other than the sender are   *)
(* sent one location_update event.                                         *)

NumericLocation(d) ==
    /\ IsLocationUpdate(d)
    /\ Has(d, "id") /\ Has(d, "latitude") /\ Has(d, "longitude")

C1_SameFields(d, row) ==
    /\ row.userId = d.id
    /\ row.latitude = ToString(d.latitude)
    /\ row.longitude = ToString(d.longitude)
    /\ row.accuracy = OptToString(d, "accuracy")

C1_AsClaimed ==
    [][/\ (handling'.at = "message" /\ NumericLocation(handling'.data))
            => Awaits("createLocationUpdate")
       /\ (handling'.at = "resolve" /\ IsLocationUpdate(handling'.data))
            => /\ Len(locationUpdates') = Len(locationUpdates) + 1
               /\ C1_SameFields(handling'.data, LastRow(locationUpdates'))
               /\ \A c \in Conns :
                     IF c # handling'.ws /\ readyState[c] = "OPEN"
                     THEN SentOne(c, "location_update")
                     ELSE out'[c] = <<>>]_vars

----------------------------------------------------------------------------
(* C2 (as claimed): every emergency_broadcast message that carries a       *)
(* userId and a location reaches the storage call, and when the call       *)
(* resolves one EmergencyAlert of status "active" or "pending" has been    *)
(* added and every open connection, the sender included, is sent an        *)
(* emergency_broadcast event carrying that row.                            *)

C2_Persisted(d) ==
    /\ Len(emergencyAlerts') = Len(emergencyAlerts) + 1
    /\ LET row == LastRow(emergencyAlerts') IN
          /\ row.status \in {"active", "pending"}
          /\ row.userId = d.userId
          /\ row.latitude = ToString(d.location.latitude)
          /\ row.longitude = ToString(d.location.longitude)
          /\ \A c \in Conns :
                IF readyState[c] = "OPEN"
                THEN SentOne(c, "emergency_broadcast") /\ out'[c][1].data = row
                ELSE out'[c] = <<>>

C2_AsClaimed ==
    [][/\ (/\ handling'.at = "message"
           /\ IsEmergencyBroadcast(handling'.data)
           /\ Has(handling'.data, "userId") /\ Has(handling'.data, "location"))
            => Awaits("createEmergencyAlert")
       /\ (handling'.at = "resolve" /\ IsEmergencyBroadcast(handling'.data))
            => C2_Persisted(handling'.data)]_vars

(* C2 (amended): every emergency_broadcast message that carries a non-zero *)
(* id, a non-zero userId and a location with a latitude and a longitude    *)
(* reaches the storage call; when the call resolves, one EmergencyAlert of *)
(* status "active" has been added and every connection open at that       *)
(* moment, the sender included, is sent one emergency_broadcast event      *)
(* carrying that row, and no other connection is sent anything.            *)

CompleteEmergency(d) ==
    /\ IsEmergencyBroadcast(d)
    /\ ~FalsyNum(d, "id") /\ ~FalsyNum(d, "userId")
    /\ Has(d, "location")
    /\ Has(d.location, "latitude") /\ Has(d.location, "longitude")

C2_Amended ==
    [][/\ (handling'.at = "message" /\ CompleteEmergency(handling'.data))
            => Awaits("createEmergencyAlert")
       /\ (handling'.at = "resolve" /\ IsEmergencyBroadcast(handling'.data))
            => /\ CompleteEmergency(handling'.data)
               /\ C2_Persisted(handling'.data)
               /\ LastRow(emergencyAlerts').status = "active"]_vars

\* An emergency_broadcast has just been fanned out to its sender and to
\* another connection, while a third connection was not open.
C2_Witness ==
    /\ handling.at = "resolve"
    /\ IsEmergencyBroadcast(handling.data)
    /\ out[handling.ws] # <<>>
    /\ out[handling.ws][1].data = LastRow(emergencyAlerts)
    /\ \E c \in Conns \ {handling.ws} : out[c] # <<>>
    /\ \E c \in Conns : readyState[c] = "CLOSING" /\ out[c] = <<>>

----------------------------------------------------------------------------
(* C3: a location_update message that lacks latitude or longitude adds no  *)
(* LocationUpdate row, then or later, and sends no frame to any other      *)
(* connection; its sender is sent exactly one error frame.                 *)

LacksCoordinate(d) ==
    IsLocationUpdate(d) /\ (~Has(d, "latitude") \/ ~Has(d, "longitude"))

C3_NoPersistOneError ==
    [][/\ (handling'.at = "message" /\ LacksCoordinate(handling'.data))
            => /\ NothingPersisted
               /\ inflight' = inflight
               /\ ErrorReplyOnly(handling'.ws)
       /\ \A h \in inflight' : ~LacksCoordinate(h.data)
       /\ handling'.at \in {"resolve", "reject"}
            => ~LacksCoordinate(handling'.data)]_vars

\* Such a message (it has an id) has just been answered, with other
\* connections open.
C3_Witness ==
    /\ handling.at = "message"
    /\ LacksCoordinate(handling.data) /\ Has(handling.data, "id")
    /\ out[handling.ws] # <<>> /\ out[handling.ws][1].type = "error"
    /\ \E c \in Conns \ {handling.ws} : readyState[c] = "OPEN"

----------------------------------------------------------------------------
(* C4: a message with a required field missing is answered with one error  *)
(* frame to its own connection only; nothing is sent to any other          *)
(* connection, nothing is persisted, no storage call is started, and the   *)
(* connection stays open, so that it can send its next message.            *)

MissingRequired(d) ==
    \/ ~Has(d, "type")
    \/ ~Has(d, "id")
    \/ /\ d.type = "location_update"
       /\ (~Has(d, "latitude") \/ ~Has(d, "longitude"))
    \/ /\ d.type = "emergency_broadcast"
       /\ \/ ~Has(d, "userId")
          \/ ~Has(d, "location")
          \/ ~Has(d.location, "latitude")
          \/ ~Has(d.location, "longitude")

C4_ErrorToSenderOnly ==
    [][(handling'.at = "message" /\ MissingRequired(handling'.data))
            => /\ ErrorReplyOnly(handling'.ws)
               /\ NothingPersisted
               /\ inflight' = inflight
               /\ readyState' = readyState
               /\ readyState'[handling'.ws] = "OPEN"]_vars

\* An emergency_broadcast without userId has just been answered with an
\* error frame, with another connection open and sent nothing.
C4_Witness ==
    /\ handling.at = "message"
    /\ IsEmergencyBroadcast(handling.data)
    /\ ~Has(handling.data, "userId")
    /\ out[handling.ws] # <<>> /\ out[handling.ws][1].type = "error"
    /\ readyState[handling.ws] = "OPEN"
    /\ \E c \in Conns \ {handling.ws} :
          readyState[c] = "OPEN" /\ out[c] = <<>>

----------------------------------------------------------------------------
(* Fan-out frames are sent only by the step at which a storage call        *)
(* resolves, for the message of that call, after its row has been added.   *)

FanOutOnlyAfterPersist ==
    (\E c \in Conns : out'[c] # <<>> /\ out'[c][1].type \in FanOutTypes)
        => /\ handling'.at = "resolve"
           /\ \E h \in inflight \ inflight' :
                 h.ws = handling'.ws /\ h.data = handling'.data
           /\ \A c \in Conns :
                 out'[c] # <<>> => out'[c][1].type = handling'.data.type
           /\ IF IsLocationUpdate(handling'.data)
              THEN Len(locationUpdates') = Len(locationUpdates) + 1
              ELSE Len(emergencyAlerts') = Len(emergencyAlerts) + 1

NoFanOutOnReject ==
    /\ NothingPersisted
    /\ \A c \in Conns \ {handling'.ws} : out'[c] = <<>>
    /\ \A c \in Conns : out'[c] # <<>> => out'[c][1].type = "error"

(* C5 (as claimed): when the storage call of a location_update or          *)
(* emergency_broadcast message rejects, no connection is sent a fan-out    *)
(* event for the message and the sender is sent an error frame; a fan-out  *)
(* event is sent only after the storage call has resolved.                 *)

C5_AsClaimed ==
    [][/\ handling'.at = "reject"
            => NoFanOutOnReject /\ SentOne(handling'.ws, "error")
       /\ FanOutOnlyAfterPersist]_vars

(* C5 (amended): as claimed, except that the sender is sent the error      *)
(* frame only if its connection is still open when the call rejects; a     *)
(* sender that closed during the call is sent nothing.                     *)

C5_Amended ==
    [][/\ handling'.at = "reject"
            => /\ NoFanOutOnReject
               /\ IF readyState[handling'.ws] = "OPEN"
                  THEN SentOne(handling'.ws, "error")
                  ELSE out'[handling'.ws] = <<>>
       /\ FanOutOnlyAfterPersist]_vars

\* A storage call has just rejected: its sender got the error frame and
\* an open peer got nothing.
C5_Witness ==
    /\ handling.at = "reject"
    /\ out[handling.ws] # <<>> /\ out[handling.ws][1].type = "error"
    /\ \E c \in Conns \ {handling.ws} : readyState[c] = "OPEN" /\ out[c] = <<>>

----------------------------------------------------------------------------
(* C6: when a send of a fan-out fails for one recipient, every other open  *)
(* recipient is still sent the event, and the sender is sent no error      *)
(* frame.                                                                  *)

\* The connections the fan-out of the message (ws, d) is due to reach.
DueRecipients(ws, d) ==
    {c \in Conns :
        readyState[c] = "OPEN" /\ (IsLocationUpdate(d) => c # ws)}

----------------------------------------------------------------------------
(* C7: a connection that is no longer open is sent no frame by any later   *)
(* step, and a fan-out that runs while a connection is closing or closed   *)
(* ends normally: every open recipient is sent the event and the catch     *)
(* block is not entered.                                                   *)

C7_ClosedGetsNothing ==
    [][/\ \A c \in Conns : out'[c] # <<>> => readyState[c] = "OPEN"
       /\ (/\ handling'.at = "resolve"
           /\ \E c \in Conns : readyState[c] \in {"CLOSING", "CLOSED"})
            => /\ \A c \in DueRecipients(handling'.ws, handling'.data) :
                     SentOne(c, handling'.data.type)
               /\ \A c \in Conns :
                     out'[c] # <<>> => out'[c][1].type # "error"]_vars

\* A location_update has just been fanned out to an open peer while another
\* peer, still in wss.clients, was closing and a third connection, the
\* sender, had closed.
C7_Witness ==
    /\ handling.at = "resolve"
    /\ IsLocationUpdate(handling.data)
    /\ readyState[handling.ws] \in {"CLOSING", "CLOSED"}
    /\ \E c \in Conns : readyState[c] = "CLOSING" /\ c # handling.ws
                        /\ out[c] = <<>>
    /\ \E c \in Conns : out[c] # <<>>

----------------------------------------------------------------------------
(* Vocabulary of the assignment properties.                                *)

\* The endpoint answered 200: assignResources resolved.
Succeeded(call) == call.pc = "responded" /\ call.status = 200

\* The indices of the resource ids a call has been through: all of its list
\* once assignResources resolved, the ones before the current one while the
\* loop runs or after it failed.
DoneIndices(call) ==
    IF Succeeded(call) THEN DOMAIN call.resourceIds
    ELSE IF Has(call, "i") THEN 1..(call.i - 1) ELSE {}

AssignmentRows(emergencyId, resourceId) ==
    {n \in DOMAIN emergencyResourceAssignments :
        /\ emergencyResourceAssignments[n].emergencyId = emergencyId
        /\ emergencyResourceAssignments[n].resourceId = resourceId
        /\ emergencyResourceAssignments[n].status = "assigned"}

\* The alert's assigned-resources list, parsed.
AssignedList(emergencyId) ==
    LET text == emergencyAlerts[emergencyId].assignedResources
    IN  IF text = Null THEN <<>> ELSE JSONparse(text)

InAssignedList(emergencyId, resourceId) ==
    \E j \in DOMAIN AssignedList(emergencyId) :
        AssignedList(emergencyId)[j] = resourceId

\* No other call works on the alert of call k.
OnlyCallOnAlert(k) ==
    \A j \in DOMAIN calls \ {k} :
        Has(calls[j], "emergencyId")
            => calls[j].emergencyId # calls[k].emergencyId

----------------------------------------------------------------------------
(* C8: when assignResources(emergencyId, [r1, r2]), called through an      *)
(* assign-resources endpoint with r1 and r2 available and no other call    *)
(* made, has resolved, the store holds two assignment records of status    *)
(* "assigned", one per resource, both resources are "in_use", and the      *)
(* alert's assigned-resources list contains r1 and r2.                     *)

C8_AsClaimed ==
    \A k \in DOMAIN calls :
        (/\ Succeeded(calls[k])
         /\ Len(calls[k].resourceIds) = 2
         /\ \A j \in DOMAIN calls \ {k} : calls[j] = Idle)
            => /\ Len(emergencyResourceAssignments) = 2
               /\ \A i \in 1..2 :
                     LET e == calls[k].emergencyId
                         r == calls[k].resourceIds[i]
                     IN  /\ AssignmentRows(e, r) # {}
                         /\ emergencyResources[r] = "in_use"
                         /\ InAssignedList(e, r)

----------------------------------------------------------------------------
(* C9: assignResources rolls nothing back.  At every moment, for every     *)
(* resource id a call has been through (the ids before the one at which it *)
(* failed, if it failed), the assignment record is in the store, the       *)
(* resource is "in_use" and, unless another call rewrote the same alert,   *)
(* the alert's list contains the id; and the statements already made for   *)
(* the id at which it failed stay made.                                    *)

----------------------------------------------------------------------------
(* C10: no availability check.  When two calls of assignResources for      *)
(* different alerts, made through the endpoint in any interleaving, have   *)
(* both resolved, every resource both lists name has two assignment        *)
(* records of status "assigned", one per alert.                            *)

C10_AsClaimed ==
    \A k1, k2 \in DOMAIN calls :
        (/\ k1 # k2
         /\ Succeeded(calls[k1]) /\ Succeeded(calls[k2])
         /\ calls[k1].emergencyId # calls[k2].emergencyId)
            => \A i1 \in DOMAIN calls[k1].resourceIds,
                  i2 \in DOMAIN calls[k2].resourceIds :
                  calls[k1].resourceIds[i1] = calls[k2].resourceIds[i2]
                     => /\ AssignmentRows(calls[k1].emergencyId,
                                          calls[k1].resourceIds[i1]) # {}
                        /\ AssignmentRows(calls[k2].emergencyId,
                                          calls[k2].resourceIds[i2]) # {}

----------------------------------------------------------------------------
(* C11: nothing is replayed.  The step at which a connection opens sends   *)
(* no frame, and every location_update or emergency_broadcast frame is     *)
(* sent by the step that stores its record, to connections that were open  *)
(* before that step: a connection that opens after the fan-out of a        *)
(* broadcast is never sent that broadcast's event.                         *)

C11_NoReplay ==
    [][/\ handling'.at = "connection" => out' = NoOut
       /\ \A c \in Conns : \A i \in DOMAIN out'[c] :
             out'[c][i].type \in FanOutTypes
                => /\ readyState[c] = "OPEN"
                   /\ handling'.at = "resolve"
                   /\ out'[c][i].type = handling'.data.type
                   /\ IF out'[c][i].type = "emergency_broadcast"
                      THEN /\ Len(emergencyAlerts') = Len(emergencyAlerts) + 1
                           /\ out'[c][i].data = LastRow(emergencyAlerts')
                      ELSE /\ Len(locationUpdates') = Len(locationUpdates) + 1
                           /\ out'[c][i].data = LocationEvent(handling'.data)]_vars

\* A connection has just opened after a broadcast was stored and fanned
\* out, and has been sent nothing.
C11_Witness ==
    /\ handling.at = "connection"
    /\ Len(emergencyAlerts) + Len(locationUpdates) > 0
    /\ inflight = {}
    /\ out[handling.ws] = <<>>

----------------------------------------------------------------------------
(* C12: in every reachable state a connection has exactly one keep-alive   *)
(* timer scheduled if its 'connection' handler ran and neither its 'close' *)
(* nor its 'error' handler has run since, and none otherwise.              *)

C12_ProbeIffRegistered ==
    \A c \in Conns :
        pingInterval[c] = IF lastEvent[c] = "connection" THEN 1 ELSE 0

\* One connection has closed, another has had an error and is closing, and
\* a third is registered with its timer scheduled.
C12_Witness ==
    \E c, d, e \in Conns :
        /\ lastEvent[c] = "close" /\ readyState[c] = "CLOSED"
        /\ lastEvent[d] = "error" /\ readyState[d] = "CLOSING"
        /\ lastEvent[e] = "connection" /\ pingInterval[e] = 1

----------------------------------------------------------------------------
(* C13: the browser module makes at most MAX_RECONNECT_ATTEMPTS reconnect  *)
(* attempts without an open in between: reconnectAttempts stays within     *)
(* 0..5; each delay set is at least the one set before it since the last  *)
(* open; and a close that finds the ceiling reached sets no timer and      *)
(* shows the error.                                                        *)

C13_AsClaimed ==
    [][/\ client'.reconnectAttempts \in 0..MAX_RECONNECT_ATTEMPTS
       /\ Len(client'.timers) > Len(client.timers)
             => client'.lastDelay >= client.lastDelay
       /\ (/\ client.reconnectAttempts >= MAX_RECONNECT_ATTEMPTS
           /\ \E s \in DOMAIN client.sockets :
                 client.sockets[s] # "CLOSED" /\ client'.sockets[s] = "CLOSED")
             => /\ client'.timers = client.timers
                /\ client'.toast = "Lost connection to server"]_vars

----------------------------------------------------------------------------
(* C14: in every reachable state the status of every stored emergency      *)
(* alert is one of pending, active, in_progress, resolved.                 *)

C14_AsClaimed ==
    \A i \in DOMAIN emergencyAlerts :
        emergencyAlerts[i].status
            \in {"pending", "active", "in_progress", "resolved"}

----------------------------------------------------------------------------
----------------------------------------------------------------------------
\* The row a step has just inserted, if it inserted one.
Inserted ==
    IF Len(locationUpdates') > Len(locationUpdates)
    THEN {LastRow(locationUpdates')}
    ELSE IF Len(emergencyAlerts') > Len(emergencyAlerts)
    THEN {LastRow(emergencyAlerts')}
    ELSE {}

Carries(row, args) == \A k \in DOMAIN args : row[k] = args[k]

\* C16: the persisted record is a function of the message body alone. The
\* row a handler inserts carries the values the body yields, its subject
\* being the body's id (location) or userId (emergency), whichever
\* connection sent the message; so it carries the values of every pending
\* message with the same body, whatever connection that one came from.
C16_SenderIrrelevant ==
    [][handling'.at = "resolve" =>
         \A row \in Inserted :
            /\ Carries(row, Dispatch(handling'.data).args)
            /\ row.userId = IF IsLocationUpdate(handling'.data)
                            THEN handling'.data.id
                            ELSE handling'.data.userId
            /\ \A h \in inflight' :
                  h.data = handling'.data => Carries(row, h.args)]_vars

\* One connection's message has been persisted under the subject its body
\* names while the same message, sent by another connection, is pending.
C16_Witness ==
    /\ handling.at = "resolve"
    /\ \E h \in inflight :
          /\ h.ws # handling.ws
          /\ h.data = handling.data
          /\ \/ /\ IsLocationUpdate(h.data)
                /\ Carries(LastRow(locationUpdates), h.args)
                /\ LastRow(locationUpdates).userId = h.data.id
             \/ /\ IsEmergencyBroadcast(h.data)
                /\ Carries(LastRow(emergencyAlerts), h.args)
                /\ LastRow(emergencyAlerts).userId = h.data.userId

----------------------------------------------------------------------------
\* This step sent connection c a location_update event.
GotLocationEvent(c) ==
    \E i \in DOMAIN out'[c] : out'[c][i].type = "location_update"

\* C17 (as claimed): when the storage call of a location_update message
\* rejects, the sender is sent an error reply and the fan-out still takes
\* place: every other open connection is sent the location_update event.
C17_AsClaimed ==
    [][(handling'.at = "reject" /\ IsLocationUpdate(handling'.data))
          => /\ SentOne(handling'.ws, "error")
             /\ \A c \in Conns \ {handling'.ws} :
                   readyState[c] = "OPEN" => GotLocationEvent(c)]_vars

\* C17 (amended): when the storage call of a location_update message
\* rejects, no record is added, no connection is sent the location_update
\* event, and the only frame of the step is the error reply to the sender,
\* sent if the sender is still open.
C17_Amended ==
    [][(handling'.at = "reject" /\ IsLocationUpdate(handling'.data))
          => /\ locationUpdates' = locationUpdates
             /\ \A c \in Conns : ~GotLocationEvent(c)
             /\ \A c \in Conns \ {handling'.ws} : out'[c] = <<>>
             /\ IF readyState[handling'.ws] = "OPEN"
                THEN SentOne(handling'.ws, "error")
                ELSE out'[handling'.ws] = <<>>]_vars

\* The storage call of a location message has just rejected: the sender
\* has its error reply, every other connection is open and none of them
\* was sent anything, and the store is empty.
C17_Witness ==
    /\ handling.at = "reject"
    /\ IsLocationUpdate(handling.data)
    /\ Len(out[handling.ws]) = 1 /\ out[handling.ws][1].type = "error"
    /\ \A c \in Conns \ {handling.ws} : readyState[c] = "OPEN" /\ out[c] = <<>>
    /\ locationUpdates = <<>>

----------------------------------------------------------------------------
\* C18: the messages of one connection are handled one after the other.
\* When the storage call of a message resolves and its fan-out runs, no
\* message received earlier from the same connection is still waiting for
\* its own storage call: peers are sent the events of one connection in
\* the order of receipt.
C18_AsClaimed ==
    [][handling'.at = "resolve"
          => \A h \in inflight \ inflight' :
                \A g \in inflight' : g.ws = h.ws => g.task > h.task]_vars

----------------------------------------------------------------------------
Admins == {i \in DOMAIN users : users[i].role = "admin"}

\* C19: a user created through POST /api/register is an admin exactly when
\* the table was empty before, whatever role the body named, and at most
\* one user is ever made admin, however the requests interleave.  (Rows are
\* only appended here, so the table was empty before exactly for row 1.)
C19_AsClaimed ==
    /\ \A i \in DOMAIN users :
          users[i].role = IF i = 1 THEN "admin" ELSE "user"
    /\ Cardinality(Admins) <= 1

----------------------------------------------------------------------------
\* Every reference of a foreign key has its row.
NoDangling ==
    /\ \A t \in {locationUpdates, medicalInfo, emergencyContacts,
                  emergencyAlerts} :
          \A i \in DOMAIN t : getUser(t[i].userId) # {}
    /\ \A i \in DOMAIN emergencyResourceAssignments :
          \E j \in DOMAIN emergencyAlerts :
             emergencyAlerts[j].id = emergencyResourceAssignments[i].emergencyId

\* No row of the user is left, nor any record that references it or one
\* of its alerts.
Gone(id, alertIds) ==
    /\ getUser(id) = {}
    /\ \A t \in {locationUpdates, medicalInfo, emergencyContacts,
                  emergencyAlerts} :
          \A i \in DOMAIN t : t[i].userId # id
    /\ \A i \in DOMAIN emergencyResourceAssignments :
          emergencyResourceAssignments[i].emergencyId \notin alertIds

\* C20: deleteUser(id) removes the user and every record that depends on
\* it, the resource assignments of its alerts first.  No foreign key is
\* ever left dangling, and when the call made for an existing user has
\* returned, the user is deleted: the request is answered 200 and neither
\* the user nor a record referencing it or its alerts remains.
C20_AsClaimed ==
    [][/\ NoDangling'
       /\ \A k \in 1..MaxDeletes :
             (deletions[k].pc = "deleteUser" /\ deletions'[k].pc = "responded")
                => /\ deletions'[k].status = 200
                   /\ Gone(deletions[k].userId, AlertsOf(deletions[k].userId))']_vars

----------------------------------------------------------------------------
\* The tables of the store.
Store ==
    <<users, locationUpdates, medicalInfo, emergencyContacts, emergencyAlerts,
      emergencyResourceAssignments>>

\* C21: the endpoint never deletes its caller and never acts on a missing
\* user.  A request naming the caller's own id is answered 400, a request
\* naming an id without a user is answered 404, and neither changes the
\* store; storage.deleteUser is called only for a user that getUser found
\* and that is not the caller; the store changes only when such a call
\* returns, and the caller's row is still there afterwards.
C21_GuardedDelete ==
    [][\A k \in 1..MaxDeletes :
         /\ (deletions[k].pc = "idle" /\ deletions'[k].pc # "idle"
                /\ deletions'[k].user = "admin"
                /\ deletions'[k].param = ToString(UserId("admin")))
               => /\ deletions'[k].pc = "responded"
                  /\ deletions'[k].status = 400
                  /\ Store' = Store
         /\ (deletions[k].pc = "getUser" /\ deletions'[k].pc # "getUser")
               => IF getUser(deletions[k].userId) = {}
                  THEN /\ deletions'[k].pc = "responded"
                       /\ deletions'[k].status = 404
                       /\ Store' = Store
                  ELSE deletions'[k].pc = "deleteUser"
         /\ deletions'[k].pc = "deleteUser"
               => /\ deletions'[k].userId # UserId(deletions'[k].user)
                  /\ deletions[k].pc = "getUser"
                        => getUser(deletions'[k].userId) # {}
         /\ (deletions'[k] # deletions[k] /\ Store' # Store)
               => /\ deletions[k].pc = "deleteUser"
                  /\ deletions'[k].status = 200
                  /\ (getUser(UserId(deletions[k].user)) # {})']_vars

\* The admin has deleted user 2 together with its records, and a second
\* request for user 2 has been answered 404; the admin's row is in place.
C21_Witness ==
    /\ deletions[1].pc = "responded" /\ deletions[1].status = 200
    /\ deletions[2].pc = "responded" /\ deletions[2].status = 404
    /\ deletions[2].user = "admin" /\ deletions[2].userId = 2
    /\ getUser(2) = {} /\ getUser(1) # {}
    /\ Len(medicalInfo) + Len(emergencyContacts) + Len(locationUpdates) > 0

----------------------------------------------------------------------------
\* C22: a failed location fetch is retried at most MAX_RETRIES times.  In
\* every chain the calls of fetchLocation that follow the first one number
\* at most MAX_RETRIES, so that a chain whose fetches all fail comes to an
\* end.
C22_AsClaimed ==
    \A c \in DOMAIN modal.chains : modal.chains[c].fetches - 1 <= MAX_RETRIES

----------------------------------------------------------------------------
\* C23: the recipients of a location fan-out are taken when the fan-out
\* runs, after the storage call.  The step in which the storage call of a
\* location_update resolves sends the event to exactly the connections
\* other than the sender that are open at that step, whether or not they
\* were open when the message arrived and whether or not the sender is
\* still open.
C23_RecipientsAtFanOut ==
    [][(handling'.at = "resolve" /\ IsLocationUpdate(handling'.data))
          => \A c \in Conns :
                GotLocationEvent(c)
                   <=> (c # handling'.ws /\ readyState[c] = "OPEN")]_vars

\* A location fan-out has just run although its sender is no longer open:
\* one connection was sent the event and another, closed, was not.
C23_Witness ==
    /\ handling.at = "resolve"
    /\ IsLocationUpdate(handling.data)
    /\ readyState[handling.ws] \in {"CLOSING", "CLOSED"}
    /\ \E c, d \in Conns \ {handling.ws} :
          /\ readyState[c] = "OPEN" /\ Len(out[c]) = 1
          /\ out[c][1].type = "location_update"
          /\ readyState[d] \in {"CLOSING", "CLOSED"} /\ out[d] = <<>>

----------------------------------------------------------------------------
\* C24: the alert the relay persists for an emergency_broadcast message
\* that names an emergency type records that type as its emergencyType.
C24_AsClaimed ==
    [][(/\ handling'.at = "resolve"
        /\ IsEmergencyBroadcast(handling'.data)
        /\ Has(handling'.data, "emergencyType"))
          => LastRow(emergencyAlerts').emergencyType
                = handling'.data.emergencyType]_vars

----------------------------------------------------------------------------
\* C25: what the client sends is what the relay accepts.  A frame made by
\* sendWSMessage from a complete location or emergency payload passes the
\* relay's validation: its handler goes on to the storage call and sends
\* no error reply.
C25_AsClaimed ==
    [][(handling'.at = "message" /\ handling'.data \in ClientFrames)
          => /\ \E h \in inflight' \ inflight : h.data = handling'.data
             /\ \A c \in Conns : out'[c] = <<>>]_vars

----------------------------------------------------------------------------
\* C26: the client holds at most one socket that is connecting or open and
\* at most one pending reconnect timer.
C26_AsClaimed ==
    /\ Cardinality({i \in DOMAIN client.sockets :
                       client.sockets[i] \in {"CONNECTING", "OPEN"}}) <= 1
    /\ Len(client.timers) <= 1

\* C27: a message arriving on the client's current connection invokes every
\* listener added and not yet removed, whichever connection was current when
\* it was added, and no message invokes a listener that has been removed.
C27_AsClaimed ==
    listeners.last.socket # 0 =>
        /\ listeners.last.current =>
              listeners.last.added \subseteq listeners.last.invoked
        /\ listeners.last.removed \cap listeners.last.invoked = {}

====
